---- MODULE Spec2Model ----
(***************************************************************************)
(* A model of the header-slice of src/src/slice.rs: the layout arithmetic, *)
(* the raw constructors, the checked constructors and the H = T            *)
(* reinterpretation, over a small byte-addressed memory.                   *)
(*                                                                         *)
(* A type is the pair of its size and its alignment.  A reference or a raw *)
(* pointer is an address; a slice reference and a header-slice reference   *)
(* are fat pointers, an address with a length.  A value of a type is       *)
(* stored in the memory cell at the address of its first byte.             *)
(***************************************************************************)
EXTENDS Integers, Sequences, FiniteSets, TLC

\* ---------------------------------------------------------------- bounds
\* The longest sequence handed to a constructor.
MaxLen == 3
\* Element values are 1..MaxVal; 0 is an uninitialised cell.
MaxVal == 2
\* Objects are placed at the addresses 1..MaxBase (0 is the null address).
MaxBase == 8
\* The width of usize, in bits.
UsizeBits == 16

\* ----------------------------------------------------------------- types
Ty(s, a) == [size |-> s, align |-> a]

\* (), u8, u16, u32, u64, [u8; 3] and (u32, u32).
Types == { Ty(0, 1), Ty(1, 1), Ty(2, 2), Ty(4, 4), Ty(8, 8), Ty(3, 1), Ty(8, 4) }

Max(a, b) == IF a >= b THEN a ELSE b

RoundUp(n, a) == ((n + a - 1) \div a) * a

MaxTypeSize == CHOOSE s \in { t.size : t \in Types } : \A t \in Types : t.size <= s

MemSize == MaxBase + MaxTypeSize * (MaxLen + 1)

Addr == 0 .. MemSize

Uninit == 0

Val == 1 .. MaxVal

\* The values of a type: a zero-sized type has one value.
Vals(ty) == IF ty.size = 0 THEN {1} ELSE Val

Usize == 2 ^ UsizeBits

size_of(ty) == ty.size

align_of(ty) == ty.align

\* [T; 0]: no bytes, the alignment of T.
ZeroArray(T) == Ty(0, T.align)

\* usize::wrapping_sub
wrapping_sub(a, b) == (a - b + Usize) % Usize

\* usize addition, wrapping as a release build wraps it.
wrapping_add(a, b) == (a + b) % Usize

\* ------------------------------------------------------- #[repr(C)] layout
\* The alignment of a #[repr(C)] struct: the greatest alignment of its fields.
RECURSIVE ReprC_align(_)
ReprC_align(fields) ==
    IF fields = <<>> THEN 1
    ELSE Max(Head(fields).align, ReprC_align(Tail(fields)))

\* The offset of field k (from 1): the end of the field before it, rounded up
\* to the alignment of field k.
RECURSIVE ReprC_offset(_, _)
ReprC_offset(fields, k) ==
    IF k = 1 THEN 0
    ELSE RoundUp(ReprC_offset(fields, k - 1) + fields[k - 1].size, fields[k].align)

\* struct HeaderSliceDummy<H, T> { header: MaybeUninit<H>, slice: MaybeUninit<[T; 0]> }
HeaderSliceDummy(H, T) == << H, ZeroArray(T) >>

\* The struct without its zero-length placeholder.
HeaderSliceHeader_no_placeholder(H, T) == << H >>

\* struct HeaderSliceHeader<H, T> { header: H, slice: MaybeUninit<[T; 0]> }
HeaderSliceHeader(H, T) == << H, ZeroArray(T) >>

\* HeaderSlice::align
align(H, T) == ReprC_align(HeaderSliceDummy(H, T))

\* The size of the header taken for the offset, no padding.
items_offset_unpadded(base_addr, H, T) == size_of(H)

\* HeaderSlice::items_offset, with the dummy at base_addr
items_offset(base_addr, H, T) ==
    LET slice_addr == base_addr + ReprC_offset(HeaderSliceDummy(H, T), 2)
    IN  slice_addr - base_addr

\* struct HeaderSlice<H, T> { header: H, slice: [T] }: the offset of `slice`.
HeaderSlice_slice_offset(H, T) == ReprC_offset(<< H, ZeroArray(T) >>, 2)

\* ---------------------------------------------------------------- memory
Read(m, a) == IF a \in DOMAIN m THEN m[a] ELSE Uninit

Write(m, a, v) == IF a \in DOMAIN m THEN [m EXCEPT ![a] = v] ELSE m

EmptyMem == [a \in Addr |-> Uninit]

\* The memory holding the elements of s, of type ty, from ptr on.
RECURSIVE Store(_, _, _, _)
Store(m, ptr, s, ty) ==
    IF s = <<>> THEN m
    ELSE Store(Write(m, ptr, Head(s)), ptr + ty.size, Tail(s), ty)

\* The addresses a valid reference to a ty can hold: non-null, aligned.
RefAddrs(ty) == { a \in 1 .. MaxBase : a % ty.align = 0 }

Seqs(ty) == UNION { [1 .. n -> Vals(ty)] : n \in 0 .. MaxLen }

\* --------------------------------------------------------------- handles
None == [some |-> FALSE]

Some(v) == [some |-> TRUE, val |-> v]

Ok(v) == [ok |-> TRUE, val |-> v]

Err(e) == [ok |-> FALSE, val |-> e]

\* &[H], &mut [H], Box<[H]>: kind "ref", "mut", "box".
Slice(k, p, n) == [kind |-> k, ptr |-> p, len |-> n]

\* &H, &mut H, Box<H>
Ref(k, p) == [kind |-> k, ptr |-> p]

\* &HeaderSlice, &mut HeaderSlice, Box<HeaderSlice>: the address of the header
\* and the length of the trailing slice.
HS(k, a, n) == [kind |-> k, addr |-> a, len |-> n]

\* One call of a constructor that trusts its caller.
Call(f, p, n) == [fn |-> f, ptr |-> p, len |-> n]

\* Box::into_raw: the box gives up the region (own: the live owning handles).
RECURSIVE Box_into_raw(_, _)
Box_into_raw(b, own) ==
    IF own = <<>> THEN <<>>
    ELSE IF Head(own) = b THEN Tail(own)
    ELSE << Head(own) >> \o Box_into_raw(b, Tail(own))

\* Box::from_raw: a new box owns the region.
Box_from_raw(b, own) == Append(own, b)

\* slice.is_empty()
is_empty(slice) == slice.len = 0

\* ------------------------------------------------------------ field access
\* hs.header
header_of(m, hs) == Read(m, hs.addr)

\* hs.slice.len()
slice_len(hs) == hs.len

\* hs.slice[i], from 0
slice_at(m, hs, i, H, T) ==
    Read(m, hs.addr + HeaderSlice_slice_offset(H, T) + i * size_of(T))

\* slice[j], from 0
index(m, slice, j, H) == Read(m, slice.ptr + j * size_of(H))

\* ------------------------------------------------------- raw constructors
from_raw_parts(header, len) ==
    [ret |-> HS("ref", header, len),
     calls |-> << Call("from_raw_parts", header, len) >>]

from_raw_parts_mut(header, len) ==
    [ret |-> HS("mut", header, len),
     calls |-> << Call("from_raw_parts_mut", header, len) >>]

boxed_from_raw_parts(header, len, own) ==
    [ret |-> HS("box", header, len),
     calls |-> << Call("boxed_from_raw_parts", header, len) >>,
     own |-> Box_from_raw(HS("box", header, len), own)]

\* --------------------------------------------- header-only constructors
\* The check made against the alignment of the header type.
is_header_slice_aligned_to_H(header, H, T) == header % align_of(H) = 0

is_header_slice_aligned(header, H, T) == header % align_of(T) = 0

from_header_unchecked(header) ==
    LET r == from_raw_parts(header.ptr, 0)
    IN  [ret |-> r.ret,
         calls |-> << Call("from_header_unchecked", header.ptr, 0) >> \o r.calls]

from_header_unchecked_mut(header) ==
    LET r == from_raw_parts_mut(header.ptr, 0)
    IN  [ret |-> r.ret,
         calls |-> << Call("from_header_unchecked_mut", header.ptr, 0) >> \o r.calls]

\* The box is rebuilt from a pointer its first owner never gave up.
from_boxed_header_unchecked_no_into_raw(header, own) ==
    LET r == boxed_from_raw_parts(header.ptr, 0, own)
    IN  [ret |-> r.ret,
         calls |-> << Call("from_boxed_header_unchecked", header.ptr, 0) >> \o r.calls,
         own |-> r.own]

from_boxed_header_unchecked(header, own) ==
    LET r == boxed_from_raw_parts(header.ptr, 0, Box_into_raw(header, own))
    IN  [ret |-> r.ret,
         calls |-> << Call("from_boxed_header_unchecked", header.ptr, 0) >> \o r.calls,
         own |-> r.own]

\* The two branches of from_header swapped.
from_header_inverted(header, H, T) ==
    IF is_header_slice_aligned(header.ptr, H, T)
    THEN [ret |-> None, calls |-> <<>>]
    ELSE LET r == from_header_unchecked(header)
         IN  [ret |-> Some(r.ret), calls |-> r.calls]

from_header(header, H, T) ==
    IF is_header_slice_aligned(header.ptr, H, T)
    THEN LET r == from_header_unchecked(header)
         IN  [ret |-> Some(r.ret), calls |-> r.calls]
    ELSE [ret |-> None, calls |-> <<>>]

from_header_mut(header, H, T) ==
    IF is_header_slice_aligned(header.ptr, H, T)
    THEN LET r == from_header_unchecked_mut(header)
         IN  [ret |-> Some(r.ret), calls |-> r.calls]
    ELSE [ret |-> None, calls |-> <<>>]

from_boxed_header(header, H, T, own) ==
    IF is_header_slice_aligned(header.ptr, H, T)
    THEN LET r == from_boxed_header_unchecked(header, own)
         IN  [ret |-> Ok(r.ret), calls |-> r.calls, own |-> r.own]
    ELSE [ret |-> Err(header), calls |-> <<>>, own |-> own]

\* ------------------------------------------------ H = T: full-slice forms
\* The length of the whole sequence passed on as the payload's.
from_full_slice_unchecked_keeps_len(slice) ==
    LET r == from_raw_parts(slice.ptr, slice.len)
    IN  [ret |-> r.ret,
         calls |-> << Call("from_full_slice_unchecked", slice.ptr, slice.len) >>
                   \o r.calls]

from_full_slice_unchecked(slice) ==
    LET r == from_raw_parts(slice.ptr, wrapping_sub(slice.len, 1))
    IN  [ret |-> r.ret,
         calls |-> << Call("from_full_slice_unchecked", slice.ptr, slice.len) >>
                   \o r.calls]

\* The same slip in the mutable form.
from_full_slice_unchecked_mut_keeps_len(slice) ==
    LET r == from_raw_parts_mut(slice.ptr, slice.len)
    IN  [ret |-> r.ret,
         calls |-> << Call("from_full_slice_unchecked_mut", slice.ptr, slice.len) >>
                   \o r.calls]

from_full_slice_unchecked_mut(slice) ==
    LET r == from_raw_parts_mut(slice.ptr, wrapping_sub(slice.len, 1))
    IN  [ret |-> r.ret,
         calls |-> << Call("from_full_slice_unchecked_mut", slice.ptr, slice.len) >>
                   \o r.calls]

from_full_boxed_slice_unchecked(slice, own) ==
    LET new_len == wrapping_sub(slice.len, 1)
        header == slice.ptr
        r == boxed_from_raw_parts(header, new_len, Box_into_raw(slice, own))
    IN  [ret |-> r.ret,
         calls |-> << Call("from_full_boxed_slice_unchecked", slice.ptr, slice.len) >>
                   \o r.calls,
         own |-> r.own]

from_full_slice(slice) ==
    IF is_empty(slice) THEN [ret |-> None, calls |-> <<>>]
    ELSE LET r == from_full_slice_unchecked(slice)
         IN  [ret |-> Some(r.ret), calls |-> r.calls]

\* from_full_slice_mut without its emptiness test.
from_full_slice_mut_no_check(slice) ==
    LET r == from_full_slice_unchecked_mut(slice)
    IN  [ret |-> Some(r.ret), calls |-> r.calls]

from_full_slice_mut(slice) ==
    IF is_empty(slice) THEN [ret |-> None, calls |-> <<>>]
    ELSE LET r == from_full_slice_unchecked_mut(slice)
         IN  [ret |-> Some(r.ret), calls |-> r.calls]

\* The empty box is dropped with the argument: an empty boxed slice owns no
\* allocation, and the handle is gone.
from_full_boxed_slice(slice, own) ==
    IF is_empty(slice)
    THEN [ret |-> None, calls |-> <<>>, own |-> Box_into_raw(slice, own)]
    ELSE LET r == from_full_boxed_slice_unchecked(slice, own)
         IN  [ret |-> Some(r.ret), calls |-> r.calls, own |-> r.own]

\* The header left out of the length.
as_full_slice_payload_len(self) ==
    LET data == self.addr
        len == slice_len(self)
    IN  Slice("ref", data, len)

as_full_slice(self) ==
    LET data == self.addr
        len == wrapping_add(slice_len(self), 1)
    IN  Slice("ref", data, len)

as_full_slice_mut(self) ==
    LET data == self.addr
        len == wrapping_add(slice_len(self), 1)
    IN  Slice("mut", data, len)

into_full_boxed_slice(self, own) ==
    LET len == wrapping_add(slice_len(self), 1)
        data == self.addr
    IN  [ret |-> Slice("box", data, len),
         own |-> Box_from_raw(Slice("box", data, len), Box_into_raw(self, own))]

\* From<&H>, From<&mut H> and From<Box<H>> for a HeaderSlice<H, H>
From_ref(header) == from_header_unchecked(header)

From_mut(header) == from_header_unchecked_mut(header)

From_box(header, own) == from_boxed_header_unchecked(header, own)

\* -------------------------------------------------------- with_header
\* hs.as_header_slice(): hs is the address of a HeaderSliceHeader<H, T>.
as_header_slice(self, H, T) ==
    from_header_unchecked(Ref("ref", self + ReprC_offset(HeaderSliceHeader(H, T), 1)))

as_header_slice_mut(self, H, T) ==
    from_header_unchecked_mut(Ref("mut", self + ReprC_offset(HeaderSliceHeader(H, T), 1)))

\* The addresses a local of a #[repr(C)] struct can be placed at.
LocalAddrs(fields) == { a \in 1 .. MaxBase : a % ReprC_align(fields) = 0 }

\* The callbacks: what a caller's closure reads from the view it is given.
Callbacks == { "header", "len" }

apply(f, m, view) == IF f = "header" THEN header_of(m, view) ELSE slice_len(view)

\* with_header(header, f), the local at address hs.
with_header(hs, header, f, m, H, T) ==
    LET tmp == Write(m, hs + ReprC_offset(HeaderSliceHeader(H, T), 1), header)
        v == as_header_slice(hs, H, T)
    IN  [ret |-> apply(f, tmp, v.ret), view |-> v.ret, calls |-> v.calls,
         fcalls |-> 1, seen |-> header_of(tmp, v.ret)]

with_header_mut(hs, header, f, m, H, T) ==
    LET tmp == Write(m, hs + ReprC_offset(HeaderSliceHeader(H, T), 1), header)
        v == as_header_slice_mut(hs, H, T)
    IN  [ret |-> apply(f, tmp, v.ret), view |-> v.ret, calls |-> v.calls,
         fcalls |-> 1, seen |-> header_of(tmp, v.ret)]

\* ------------------------------------------------------------------ state
\* tyH, tyT: the header type H and the element type T of the instantiation
\* mem:      the memory
\* own:      the live owning handles (boxes) of the object in memory
\* hs:       the live header-slice handle, if any
\* src:      the argument the live object was made from, if any
\* res:      the last operation and what it returned
VARIABLES tyH, tyT, mem, own, hs, src, res

vars == << tyH, tyT, mem, own, hs, src, res >>

\* The argument of a constructor, and the elements it held when it was given.
Arg(a, s) == Some([arg |-> a, elems |-> s, wrote |-> FALSE])

\* After a write the elements the argument held are history.
Written(x) == Some([arg |-> x.val.arg, elems |-> <<>>, wrote |-> TRUE])

Init ==
    /\ tyH \in Types
    /\ tyT \in Types
    /\ mem = EmptyMem
    /\ own = <<>>
    /\ hs = None
    /\ src = None
    /\ res = [op |-> "init"]

Idle == src = None

\* ------------------------------------------------------ layout arithmetic
Align ==
    /\ res' = [op |-> "align", val |-> align(tyH, tyT)]
    /\ UNCHANGED << tyH, tyT, mem, own, hs, src >>

ItemsOffset ==
    \E base_addr \in LocalAddrs(HeaderSliceDummy(tyH, tyT)) :
        /\ res' = [op |-> "items_offset", val |-> items_offset(base_addr, tyH, tyT)]
        /\ UNCHANGED << tyH, tyT, mem, own, hs, src >>

\* ------------------------------------------------------------ with_header
WithHeader ==
    /\ Idle
    /\ \E a \in LocalAddrs(HeaderSliceHeader(tyH, tyT)), h \in Vals(tyH), f \in Callbacks :
          LET r == with_header(a, h, f, mem, tyH, tyT)
          IN  res' = [op |-> "with_header", header |-> h, f |-> f, ret |-> r.ret,
                      view |-> r.view, calls |-> r.calls, fcalls |-> r.fcalls,
                      seen |-> r.seen]
    /\ UNCHANGED << tyH, tyT, mem, own, hs, src >>

WithHeaderMut ==
    /\ Idle
    /\ \E a \in LocalAddrs(HeaderSliceHeader(tyH, tyT)), h \in Vals(tyH), f \in Callbacks :
          LET r == with_header_mut(a, h, f, mem, tyH, tyT)
          IN  res' = [op |-> "with_header_mut", header |-> h, f |-> f, ret |-> r.ret,
                      view |-> r.view, calls |-> r.calls, fcalls |-> r.fcalls,
                      seen |-> r.seen]
    /\ UNCHANGED << tyH, tyT, mem, own, hs, src >>

\* ------------------------------------------------ header-only constructors
FromHeader ==
    /\ Idle
    /\ \E a \in RefAddrs(tyH), h \in Vals(tyH) :
          LET header == Ref("ref", a)
              r == from_header(header, tyH, tyT)
          IN  /\ mem' = Write(EmptyMem, a, h)
              /\ src' = Arg(header, << h >>)
              /\ hs' = r.ret
              /\ res' = [op |-> "from_header", ret |-> r.ret, calls |-> r.calls]
    /\ UNCHANGED << tyH, tyT, own >>

FromHeaderMut ==
    /\ Idle
    /\ \E a \in RefAddrs(tyH), h \in Vals(tyH) :
          LET header == Ref("mut", a)
              r == from_header_mut(header, tyH, tyT)
          IN  /\ mem' = Write(EmptyMem, a, h)
              /\ src' = Arg(header, << h >>)
              /\ hs' = r.ret
              /\ res' = [op |-> "from_header_mut", ret |-> r.ret, calls |-> r.calls]
    /\ UNCHANGED << tyH, tyT, own >>

FromBoxedHeader ==
    /\ Idle
    /\ \E a \in RefAddrs(tyH), h \in Vals(tyH) :
          LET header == Ref("box", a)
              r == from_boxed_header(header, tyH, tyT, << header >>)
          IN  /\ mem' = Write(EmptyMem, a, h)
              /\ src' = Arg(header, << h >>)
              /\ own' = r.own
              /\ hs' = IF r.ret.ok THEN Some(r.ret.val) ELSE None
              /\ res' = [op |-> "from_boxed_header", ret |-> r.ret, calls |-> r.calls]
    /\ UNCHANGED << tyH, tyT >>

\* ------------------------------------------------------ From impls, H = T
FromRef ==
    /\ Idle
    /\ tyH = tyT
    /\ \E a \in RefAddrs(tyH), h \in Vals(tyH) :
          LET header == Ref("ref", a)
              r == From_ref(header)
          IN  /\ mem' = Write(EmptyMem, a, h)
              /\ src' = Arg(header, << h >>)
              /\ hs' = Some(r.ret)
              /\ res' = [op |-> "from_ref", ret |-> r.ret, calls |-> r.calls]
    /\ UNCHANGED << tyH, tyT, own >>

FromMut ==
    /\ Idle
    /\ tyH = tyT
    /\ \E a \in RefAddrs(tyH), h \in Vals(tyH) :
          LET header == Ref("mut", a)
              r == From_mut(header)
          IN  /\ mem' = Write(EmptyMem, a, h)
              /\ src' = Arg(header, << h >>)
              /\ hs' = Some(r.ret)
              /\ res' = [op |-> "from_mut", ret |-> r.ret, calls |-> r.calls]
    /\ UNCHANGED << tyH, tyT, own >>

FromBox ==
    /\ Idle
    /\ tyH = tyT
    /\ \E a \in RefAddrs(tyH), h \in Vals(tyH) :
          LET header == Ref("box", a)
              r == From_box(header, << header >>)
          IN  /\ mem' = Write(EmptyMem, a, h)
              /\ src' = Arg(header, << h >>)
              /\ own' = r.own
              /\ hs' = Some(r.ret)
              /\ res' = [op |-> "from_box", ret |-> r.ret, calls |-> r.calls]
    /\ UNCHANGED << tyH, tyT >>

\* ------------------------------------------------ full-slice forms, H = T
FromFullSlice ==
    /\ Idle
    /\ tyH = tyT
    /\ \E p \in RefAddrs(tyH), s \in Seqs(tyH) :
          LET slice == Slice("ref", p, Len(s))
              r == from_full_slice(slice)
          IN  /\ mem' = Store(EmptyMem, p, s, tyH)
              /\ src' = Arg(slice, s)
              /\ hs' = r.ret
              /\ res' = [op |-> "from_full_slice", ret |-> r.ret, calls |-> r.calls]
    /\ UNCHANGED << tyH, tyT, own >>

FromFullSliceMut ==
    /\ Idle
    /\ tyH = tyT
    /\ \E p \in RefAddrs(tyH), s \in Seqs(tyH) :
          LET slice == Slice("mut", p, Len(s))
              r == from_full_slice_mut(slice)
          IN  /\ mem' = Store(EmptyMem, p, s, tyH)
              /\ src' = Arg(slice, s)
              /\ hs' = r.ret
              /\ res' = [op |-> "from_full_slice_mut", ret |-> r.ret, calls |-> r.calls]
    /\ UNCHANGED << tyH, tyT, own >>

FromFullBoxedSlice ==
    /\ Idle
    /\ tyH = tyT
    /\ \E p \in RefAddrs(tyH), s \in Seqs(tyH) :
          LET slice == Slice("box", p, Len(s))
              r == from_full_boxed_slice(slice, << slice >>)
          IN  /\ mem' = IF r.own = <<>> THEN EmptyMem ELSE Store(EmptyMem, p, s, tyH)
              /\ src' = Arg(slice, s)
              /\ own' = r.own
              /\ hs' = r.ret
              /\ res' = [op |-> "from_full_boxed_slice", ret |-> r.ret, calls |-> r.calls]
    /\ UNCHANGED << tyH, tyT >>

Live == hs.some

Exclusive == hs.some /\ hs.val.kind \in { "mut", "box" }

AsFullSlice ==
    /\ Live
    /\ tyH = tyT
    /\ res' = [op |-> "as_full_slice", ret |-> as_full_slice(hs.val)]
    /\ UNCHANGED << tyH, tyT, mem, own, hs, src >>

AsFullSliceMut ==
    /\ Exclusive
    /\ tyH = tyT
    /\ res' = [op |-> "as_full_slice_mut", ret |-> as_full_slice_mut(hs.val)]
    /\ UNCHANGED << tyH, tyT, mem, own, hs, src >>

IntoFullBoxedSlice ==
    /\ Live
    /\ hs.val.kind = "box"
    /\ tyH = tyT
    /\ LET r == into_full_boxed_slice(hs.val, own)
       IN  /\ own' = r.own
           /\ res' = [op |-> "into_full_boxed_slice", ret |-> r.ret, self |-> hs.val]
    /\ hs' = None
    /\ UNCHANGED << tyH, tyT, mem, src >>

\* ------------------------------------------------ writes through a view
\* hs.header = v
WriteHeader ==
    /\ Exclusive
    /\ \E v \in Vals(tyH) :
          /\ mem' = Write(mem, hs.val.addr, v)
          /\ res' = [op |-> "write_header", val |-> v]
    /\ src' = Written(src)
    /\ UNCHANGED << tyH, tyT, own, hs >>

\* hs.slice[i] = v
WriteSlice ==
    /\ Exclusive
    /\ \E i \in 0 .. slice_len(hs.val) - 1, v \in Vals(tyT) :
          /\ mem' = Write(mem, hs.val.addr + HeaderSlice_slice_offset(tyH, tyT)
                                + i * size_of(tyT), v)
          /\ res' = [op |-> "write_slice", idx |-> i, val |-> v]
    /\ src' = Written(src)
    /\ UNCHANGED << tyH, tyT, own, hs >>

\* hs.as_full_slice_mut()[j] = v
WriteFull ==
    /\ Exclusive
    /\ tyH = tyT
    /\ LET full == as_full_slice_mut(hs.val)
       IN  \E j \in 0 .. full.len - 1, v \in Vals(tyH) :
              /\ mem' = Write(mem, full.ptr + j * size_of(tyH), v)
              /\ res' = [op |-> "write_full", idx |-> j, val |-> v]
    /\ src' = Written(src)
    /\ UNCHANGED << tyH, tyT, own, hs >>

\* The borrow ends, or the box is dropped and its region released.
Release ==
    /\ ~Idle
    /\ mem' = EmptyMem
    /\ own' = <<>>
    /\ hs' = None
    /\ src' = None
    /\ res' = [op |-> "release"]
    /\ UNCHANGED << tyH, tyT >>

Next ==
    \/ Align
    \/ ItemsOffset
    \/ WithHeader
    \/ WithHeaderMut
    \/ FromHeader
    \/ FromHeaderMut
    \/ FromBoxedHeader
    \/ FromRef
    \/ FromMut
    \/ FromBox
    \/ FromFullSlice
    \/ FromFullSliceMut
    \/ FromFullBoxedSlice
    \/ AsFullSlice
    \/ AsFullSliceMut
    \/ IntoFullBoxedSlice
    \/ WriteHeader
    \/ WriteSlice
    \/ WriteFull
    \/ Release

Spec == Init /\ [][Next]_vars

\* ------------------------------------------------------------------ claims
FullSliceOps == { "from_full_slice", "from_full_slice_mut", "from_full_boxed_slice" }

HeaderOps == { "from_header", "from_header_mut", "from_boxed_header" }

RawOps == { "from_raw_parts", "from_raw_parts_mut", "boxed_from_raw_parts" }

\* The live object was made from a sequence (not from a lone header).
FromSeq == src.some /\ "len" \in DOMAIN src.val.arg

\* C1: for a non-empty sequence, from_full_slice and its _mut and boxed
\* variants return a header-slice whose header is seq[0], whose payload has
\* len(seq) - 1 elements, and whose payload element i is seq[i + 1].
C1_FromFullSlice ==
    (res.op \in FullSliceOps /\ src.val.elems # <<>>) =>
        LET seq == src.val.elems
        IN  /\ res.ret.some
            /\ header_of(mem, res.ret.val) = seq[1]
            /\ slice_len(res.ret.val) = Len(seq) - 1
            /\ \A i \in 0 .. Len(seq) - 2 :
                  slice_at(mem, res.ret.val, i, tyH, tyT) = seq[i + 2]

\* A three-element sequence of distinct neighbours was converted.
C1_Witness ==
    /\ res.op = "from_full_slice"
    /\ tyH.size = 4
    /\ src.val.elems = << 1, 2, 1 >>
    /\ res.ret.some
    /\ slice_len(res.ret.val) = 2

\* C2: as_full_slice (as_full_slice_mut, into_full_boxed_slice) of a
\* header-slice made from a non-empty sequence has the length of the
\* sequence, starts at its base address, and holds the same elements in the
\* same order.
C2_RoundTrip ==
    (res.op \in { "as_full_slice", "as_full_slice_mut", "into_full_boxed_slice" }
        /\ FromSeq) =>
        LET seq == src.val.arg
        IN  /\ res.ret.len = seq.len
            /\ res.ret.ptr = seq.ptr
            /\ ~src.val.wrote =>
                  \A j \in 0 .. seq.len - 1 :
                      index(mem, res.ret, j, tyH) = src.val.elems[j + 1]
            /\ res.op = "into_full_boxed_slice" => own = << res.ret >>

\* A boxed three-element sequence went to a header-slice and back.
C2_Witness ==
    /\ res.op = "into_full_boxed_slice"
    /\ FromSeq
    /\ src.val.arg.kind = "box"
    /\ src.val.elems = << 2, 1, 2 >>
    /\ tyH.size = 2

\* C3: given an empty sequence, from_full_slice, from_full_slice_mut and
\* from_full_boxed_slice return None without calling an unchecked
\* constructor; the length a raw constructor is given is len - 1 of a
\* len >= 1, never the wrapped usize::MAX.
C3_EmptyIsNone ==
    res.op \in FullSliceOps =>
        /\ src.val.arg.len = 0 => (res.ret = None /\ res.calls = <<>> /\ hs = None)
        /\ \A k \in 1 .. Len(res.calls) :
              /\ src.val.arg.len >= 1
              /\ res.calls[k].fn \in RawOps =>
                    (res.calls[k].len = src.val.arg.len - 1
                        /\ res.calls[k].len # Usize - 1)

\* An empty mutable sequence was rejected.
C3_Witness ==
    /\ res.op = "from_full_slice_mut"
    /\ src.val.arg.len = 0
    /\ res.ret = None

\* C4: from_header and from_header_mut return Some exactly when the address
\* of the header is a multiple of align_of(T); the view is then formed at
\* that address, with no payload, by the zero-length raw constructor.
C4_FromHeaderIff ==
    res.op \in { "from_header", "from_header_mut" } =>
        LET a == src.val.arg.ptr
        IN  /\ res.ret.some <=> (a % align_of(tyT) = 0)
            /\ res.ret.some =>
                  /\ res.ret.val.addr = a
                  /\ slice_len(res.ret.val) = 0
                  /\ header_of(mem, res.ret.val) = src.val.elems[1]
                  /\ res.calls[Len(res.calls)].fn \in RawOps
                  /\ res.calls[Len(res.calls)].ptr = a
                  /\ res.calls[Len(res.calls)].len = 0
            /\ ~res.ret.some => res.calls = <<>>

\* A header at an address that is not aligned for T was refused.
C4_Witness ==
    /\ res.op = "from_header"
    /\ src.val.arg.ptr % align_of(tyT) # 0
    /\ res.ret = None

\* C5: if align_of(T) >= align_of(H), then from_header, from_header_mut and
\* from_boxed_header succeed for every header reference aligned for H.
C5_GreaterAlignNeverFails ==
    (res.op \in HeaderOps /\ align_of(tyT) >= align_of(tyH)) =>
        IF res.op = "from_boxed_header" THEN res.ret.ok ELSE res.ret.some

\* C6: if align_of(H) is a multiple of align_of(T), from_header (and its
\* variants) succeeds for every valid reference to H; the H = T conversions
\* that skip the check produce views the check would have accepted.
C6_MultipleAlignNeverFails ==
    /\ (res.op \in HeaderOps /\ align_of(tyH) % align_of(tyT) = 0) =>
          IF res.op = "from_boxed_header" THEN res.ret.ok ELSE res.ret.some
    /\ res.op \in { "from_ref", "from_mut", "from_box" } =>
          /\ is_header_slice_aligned(res.ret.addr, tyH, tyT)
          /\ res.ret.addr = src.val.arg.ptr
          /\ slice_len(res.ret) = 0

\* A u64 header at its only natural alignment made a view with u16 elements.
C6_Witness ==
    /\ res.op = "from_header"
    /\ align_of(tyH) = 8
    /\ align_of(tyT) = 2
    /\ res.ret.some

\* C7: from_boxed_header hands back the box it was given when the alignment
\* check fails (same address, same header value, nothing released) and
\* returns an owning zero-length header-slice over the same region when it
\* passes; either way the region has exactly one owner afterwards.
C7_BoxedHeader ==
    res.op = "from_boxed_header" =>
        LET header == src.val.arg
        IN  /\ res.ret.ok <=> (header.ptr % align_of(tyT) = 0)
            /\ res.ret.ok =>
                  /\ res.ret.val = HS("box", header.ptr, 0)
                  /\ own = << res.ret.val >>
            /\ ~res.ret.ok =>
                  /\ res.ret.val = header
                  /\ own = << header >>
            /\ Len(own) = 1
            /\ Read(mem, header.ptr) = src.val.elems[1]

\* A misaligned box came back as the error.
C7_Witness ==
    /\ res.op = "from_boxed_header"
    /\ ~res.ret.ok
    /\ own = << src.val.arg >>

\* C8: with_header and with_header_mut call f once, on a view whose header
\* is the given value and whose payload is empty, and return what f
\* returned; the view's address is aligned for T whatever H is.
C8_WithHeader ==
    res.op \in { "with_header", "with_header_mut" } =>
        /\ res.fcalls = 1
        /\ res.seen = res.header
        /\ slice_len(res.view) = 0
        /\ res.ret = (IF res.f = "header" THEN res.header ELSE 0)
        /\ res.view.addr % align_of(tyT) = 0
        /\ res.view.addr % align_of(tyH) = 0

\* A u8 header was viewed with u64 elements and read back.
C8_Witness ==
    /\ res.op = "with_header"
    /\ tyH = Ty(1, 1)
    /\ tyT = Ty(8, 8)
    /\ res.f = "header"
    /\ res.ret = 2

\* C9: align() is the greater of the two alignments and items_offset() is
\* size_of(H) rounded up to it, so that every payload element of a region
\* based at a multiple of align() is aligned for T; u8 with u32 gives offset
\* 4 and a three-element region of 16 bytes.
C9_Layout ==
    LET A == Max(align_of(tyH), align_of(tyT))
    IN  /\ res.op = "align" => res.val = A
        /\ res.op = "items_offset" =>
              /\ res.val = RoundUp(size_of(tyH), A)
              /\ res.val = HeaderSlice_slice_offset(tyH, tyT)
              /\ \A base \in 0 .. MaxBase, i \in 0 .. MaxLen :
                    base % A = 0 =>
                        (base + res.val + i * size_of(tyT)) % align_of(tyT) = 0
              /\ (tyH = Ty(1, 1) /\ tyT = Ty(4, 4)) =>
                    (res.val = 4 /\ res.val + 3 * size_of(tyT) = 16)

\* The offset of u32 elements after a u8 header was computed.
C9_Witness ==
    /\ res.op = "items_offset"
    /\ tyH = Ty(1, 1)
    /\ tyT = Ty(4, 4)
    /\ res.val = 4

\* The view is a mutable one made by from_full_slice_mut.
MutFromSeq == hs.some /\ FromSeq /\ src.val.arg.kind = "mut"

\* Element j of the sequence the view was made from is the same before and
\* after the step.
Kept(j) == index(mem', src.val.arg, j, tyH) = index(mem, src.val.arg, j, tyH)

C10_Shape ==
    MutFromSeq =>
        LET seq == src.val.arg
            back == from_full_slice(as_full_slice(hs.val))
        IN  /\ slice_len(hs.val) = seq.len - 1
            /\ as_full_slice(hs.val).len = seq.len
            /\ as_full_slice_mut(hs.val).len # 0
            /\ back.ret.some
            /\ back.ret.val.addr = hs.val.addr
            /\ back.ret.val.len = hs.val.len
            /\ header_of(mem, back.ret.val) = index(mem, seq, 0, tyH)
            /\ \A i \in 0 .. seq.len - 2 :
                  slice_at(mem, back.ret.val, i, tyH, tyT) = index(mem, seq, i + 1, tyH)

C10_Frame ==
    MutFromSeq =>
        LET seq == src.val.arg
        IN  /\ res'.op = "write_header" =>
                  /\ index(mem', seq, 0, tyH) = res'.val
                  /\ \A j \in 1 .. seq.len - 1 : Kept(j)
                  /\ hs' = hs
            /\ res'.op = "write_slice" =>
                  /\ index(mem', seq, res'.idx + 1, tyH) = res'.val
                  /\ \A j \in 0 .. seq.len - 1 : j # res'.idx + 1 => Kept(j)
                  /\ hs' = hs
            /\ res'.op = "write_full" =>
                  /\ index(mem', seq, res'.idx, tyH) = res'.val
                  /\ \A j \in 0 .. seq.len - 1 : j # res'.idx => Kept(j)
                  /\ hs' = hs

\* C10: through a mutable view made by from_full_slice_mut, a header write
\* changes seq[0] only, a write to payload index i changes seq[i + 1] only,
\* and the view keeps its shape: payload length len(seq) - 1, full length
\* len(seq), so that converting back and forth again gives the same header
\* and payload.
C10_WritesKeepShape == [](C10_Shape) /\ [][C10_Frame]_vars

\* The last payload element of a three-element sequence was overwritten
\* through the view.
C10_Witness ==
    /\ MutFromSeq
    /\ src.val.arg.len = 3
    /\ res.op = "write_slice"
    /\ res.idx = 1
    /\ tyH.size = 4
    /\ src.val.wrote

====
